---- MODULE Spec2Model ----
(***************************************************************************)
(* Model of the listings server (Express application, part_000) and of    *)
(* the validation helpers it shares with the browser script.               *)
(*                                                                         *)
(* Strings are sequences of Unicode code points (the directory is          *)
(* Cyrillic); an optional value (undefined / null in the source) is the    *)
(* empty tuple None and a present value v is Some(v) = <<v>>.              *)
(***************************************************************************)
EXTENDS Integers, Sequences, FiniteSets, TLC

VARIABLES
    projects,   \* content of projects.json: the sequence of stored records
    uploads,    \* names of the files present in the uploads directory
    resp,       \* the last request handled and the response it got
    arg,        \* input of the last city / phone helper call
    ret,        \* result of the last city / phone helper call
    inflight    \* requests received whose handler has not answered yet

vars == <<projects, uploads, resp, arg, ret, inflight>>

None == <<>>
Some(v) == <<v>>

(***************************************************************************)
(* JavaScript string primitives                                            *)
(***************************************************************************)

\* String.prototype.toLowerCase on one code point: Latin A-Z, Cyrillic
\* U+0410..U+042F (+32) and U+0400..U+040F (+80, which holds U+0401 Yo).
lowerChar(c) ==
    IF c \in 65..90 THEN c + 32
    ELSE IF c \in 1040..1071 THEN c + 32
    ELSE IF c \in 1024..1039 THEN c + 80
    ELSE c

toLowerCase(s) == [i \in 1..Len(s) |-> lowerChar(s[i])]

\* \s of a JavaScript regular expression, which is also what trim() strips.
IsSpace(c) ==
    c \in {9, 10, 11, 12, 13, 32, 160, 5760, 8232, 8233, 8239, 8287, 12288, 65279}
    \/ c \in 8192..8202

\* \d of a JavaScript regular expression: ASCII digits only.
IsDigit(c) == c \in 48..57

trim(s) ==
    LET keep == {i \in 1..Len(s) : ~IsSpace(s[i])}
    IN  IF keep = {} THEN <<>>
        ELSE SubSeq(s, CHOOSE i \in keep : \A j \in keep : i <= j,
                       CHOOSE i \in keep : \A j \in keep : i >= j)

startsWith(s, p) == Len(p) <= Len(s) /\ SubSeq(s, 1, Len(p)) = p

includes(s, p) ==
    \E i \in 0..(Len(s) - Len(p)) : SubSeq(s, i + 1, i + Len(p)) = p

\* s.replace(/\D/g, '')
stripNonDigits(s) == SelectSeq(s, IsDigit)

\* s.split(/[-\s]+/): the pieces between maximal runs of hyphens and white
\* space; a separator at either end yields an empty piece there.
IsWordSep(c) == c = 45 \/ IsSpace(c)

RECURSIVE splitWords(_)
splitWords(s) ==
    LET seps == {i \in 1..Len(s) : IsWordSep(s[i])}
    IN  IF seps = {} THEN <<s>>
        ELSE LET i == CHOOSE k \in seps : \A j \in seps : k <= j
                 rest == {k \in (i + 1)..Len(s) : ~IsWordSep(s[k])}
                 j == IF rest = {} THEN Len(s) + 1
                      ELSE CHOOSE k \in rest : \A m \in rest : k <= m
             IN  <<SubSeq(s, 1, i - 1)>> \o splitWords(SubSeq(s, j, Len(s)))

\* Array.prototype.slice(0, n)
slice(a, n) == SubSeq(a, 1, IF Len(a) < n THEN Len(a) ELSE n)

\* Array.prototype.includes / some, on a sequence
InSeq(a, x) == \E i \in 1..Len(a) : a[i] = x

(***************************************************************************)
(* The city directory                                                      *)
(***************************************************************************)

RUSSIAN_CITIES == <<
    <<1052, 1086, 1089, 1082, 1074, 1072>>,  \* 1 Moskva
    <<1057, 1072, 1085, 1082, 1090, 45, 1055, 1077, 1090, 1077, 1088, 1073, 1091, 1088, 1075>>,  \* 2 Sankt-Peterburg
    <<1053, 1086, 1074, 1086, 1089, 1080, 1073, 1080, 1088, 1089, 1082>>,  \* 3 Novosibirsk
    <<1045, 1082, 1072, 1090, 1077, 1088, 1080, 1085, 1073, 1091, 1088, 1075>>,  \* 4 Ekaterinburg
    <<1050, 1072, 1079, 1072, 1085, 1100>>,  \* 5 Kazan
    <<1053, 1080, 1078, 1085, 1080, 1081, 32, 1053, 1086, 1074, 1075, 1086, 1088, 1086, 1076>>,  \* 6 Nizhniy Novgorod
    <<1063, 1077, 1083, 1103, 1073, 1080, 1085, 1089, 1082>>,  \* 7 Chelyabinsk
    <<1057, 1072, 1084, 1072, 1088, 1072>>,  \* 8 Samara
    <<1054, 1084, 1089, 1082>>,  \* 9 Omsk
    <<1056, 1086, 1089, 1090, 1086, 1074, 45, 1085, 1072, 45, 1044, 1086, 1085, 1091>>,  \* 10 Rostov-na-Donu
    <<1059, 1092, 1072>>,  \* 11 Ufa
    <<1050, 1088, 1072, 1089, 1085, 1086, 1103, 1088, 1089, 1082>>,  \* 12 Krasnoyarsk
    <<1042, 1086, 1088, 1086, 1085, 1077, 1078>>,  \* 13 Voronezh
    <<1055, 1077, 1088, 1084, 1100>>,  \* 14 Perm
    <<1042, 1086, 1083, 1075, 1086, 1075, 1088, 1072, 1076>>,  \* 15 Volgograd
    <<1050, 1088, 1072, 1089, 1085, 1086, 1076, 1072, 1088>>,  \* 16 Krasnodar
    <<1057, 1072, 1088, 1072, 1090, 1086, 1074>>,  \* 17 Saratov
    <<1058, 1102, 1084, 1077, 1085, 1100>>,  \* 18 Tyumen
    <<1058, 1086, 1083, 1100, 1103, 1090, 1090, 1080>>,  \* 19 Tolyatti
    <<1048, 1078, 1077, 1074, 1089, 1082>>,  \* 20 Izhevsk
    <<1041, 1072, 1088, 1085, 1072, 1091, 1083>>,  \* 21 Barnaul
    <<1059, 1083, 1100, 1103, 1085, 1086, 1074, 1089, 1082>>,  \* 22 Ulyanovsk
    <<1048, 1088, 1082, 1091, 1090, 1089, 1082>>,  \* 23 Irkutsk
    <<1061, 1072, 1073, 1072, 1088, 1086, 1074, 1089, 1082>>,  \* 24 Khabarovsk
    <<1071, 1088, 1086, 1089, 1083, 1072, 1074, 1083, 1100>>,  \* 25 Yaroslavl
    <<1042, 1083, 1072, 1076, 1080, 1074, 1086, 1089, 1090, 1086, 1082>>,  \* 26 Vladivostok
    <<1052, 1072, 1093, 1072, 1095, 1082, 1072, 1083, 1072>>,  \* 27 Makhachkala
    <<1058, 1086, 1084, 1089, 1082>>,  \* 28 Tomsk
    <<1054, 1088, 1077, 1085, 1073, 1091, 1088, 1075>>,  \* 29 Orenburg
    <<1050, 1077, 1084, 1077, 1088, 1086, 1074, 1086>>,  \* 30 Kemerovo
    <<1053, 1086, 1074, 1086, 1082, 1091, 1079, 1085, 1077, 1094, 1082>>,  \* 31 Novokuznetsk
    <<1056, 1103, 1079, 1072, 1085, 1100>>,  \* 32 Ryazan
    <<1040, 1089, 1090, 1088, 1072, 1093, 1072, 1085, 1100>>,  \* 33 Astrakhan
    <<1053, 1072, 1073, 1077, 1088, 1077, 1078, 1085, 1099, 1077, 32, 1063, 1077, 1083, 1085, 1099>>,  \* 34 Naberezhnye Chelny
    <<1055, 1077, 1085, 1079, 1072>>,  \* 35 Penza
    <<1051, 1080, 1087, 1077, 1094, 1082>>,  \* 36 Lipetsk
    <<1050, 1080, 1088, 1086, 1074>>,  \* 37 Kirov
    <<1063, 1077, 1073, 1086, 1082, 1089, 1072, 1088, 1099>>,  \* 38 Cheboksary
    <<1058, 1091, 1083, 1072>>,  \* 39 Tula
    <<1050, 1072, 1083, 1080, 1085, 1080, 1085, 1075, 1088, 1072, 1076>>,  \* 40 Kaliningrad
    <<1041, 1072, 1083, 1072, 1096, 1080, 1093, 1072>>,  \* 41 Balashikha
    <<1050, 1091, 1088, 1089, 1082>>,  \* 42 Kursk
    <<1057, 1077, 1074, 1072, 1089, 1090, 1086, 1087, 1086, 1083, 1100>>,  \* 43 Sevastopol
    <<1057, 1086, 1095, 1080>>,  \* 44 Sochi
    <<1057, 1090, 1072, 1074, 1088, 1086, 1087, 1086, 1083, 1100>>,  \* 45 Stavropol
    <<1059, 1083, 1072, 1085, 45, 1059, 1076, 1101>>,  \* 46 Ulan-Ude
    <<1058, 1074, 1077, 1088, 1100>>,  \* 47 Tver
    <<1052, 1072, 1075, 1085, 1080, 1090, 1086, 1075, 1086, 1088, 1089, 1082>>,  \* 48 Magnitogorsk
    <<1048, 1074, 1072, 1085, 1086, 1074, 1086>>,  \* 49 Ivanovo
    <<1041, 1088, 1103, 1085, 1089, 1082>>,  \* 50 Bryansk
    <<1041, 1077, 1083, 1075, 1086, 1088, 1086, 1076>>,  \* 51 Belgorod
    <<1057, 1091, 1088, 1075, 1091, 1090>>,  \* 52 Surgut
    <<1042, 1083, 1072, 1076, 1080, 1084, 1080, 1088>>,  \* 53 Vladimir
    <<1053, 1080, 1078, 1085, 1080, 1081, 32, 1058, 1072, 1075, 1080, 1083>>,  \* 54 Nizhniy Tagil
    <<1040, 1088, 1093, 1072, 1085, 1075, 1077, 1083, 1100, 1089, 1082>>,  \* 55 Arkhangelsk
    <<1063, 1080, 1090, 1072>>,  \* 56 Chita
    <<1050, 1072, 1083, 1091, 1075, 1072>>,  \* 57 Kaluga
    <<1057, 1080, 1084, 1092, 1077, 1088, 1086, 1087, 1086, 1083, 1100>>,  \* 58 Simferopol
    <<1057, 1084, 1086, 1083, 1077, 1085, 1089, 1082>>,  \* 59 Smolensk
    <<1042, 1086, 1083, 1078, 1089, 1082, 1080, 1081>>,  \* 60 Volzhskiy
    <<1057, 1072, 1088, 1072, 1085, 1089, 1082>>,  \* 61 Saransk
    <<1063, 1077, 1088, 1077, 1087, 1086, 1074, 1077, 1094>>,  \* 62 Cherepovets
    <<1050, 1091, 1088, 1075, 1072, 1085>>,  \* 63 Kurgan
    <<1054, 1088, 1105, 1083>>,  \* 64 Oryol
    <<1042, 1086, 1083, 1086, 1075, 1076, 1072>>,  \* 65 Vologda
    <<1071, 1082, 1091, 1090, 1089, 1082>>,  \* 66 Yakutsk
    <<1055, 1086, 1076, 1086, 1083, 1100, 1089, 1082>>,  \* 67 Podolsk
    <<1057, 1090, 1077, 1088, 1083, 1080, 1090, 1072, 1084, 1072, 1082>>,  \* 68 Sterlitamak
    <<1043, 1088, 1086, 1079, 1085, 1099, 1081>>,  \* 69 Groznyy
    <<1042, 1083, 1072, 1076, 1080, 1082, 1072, 1074, 1082, 1072, 1079>>,  \* 70 Vladikavkaz
    <<1052, 1091, 1088, 1084, 1072, 1085, 1089, 1082>>,  \* 71 Murmansk
    <<1058, 1072, 1084, 1073, 1086, 1074>>,  \* 72 Tambov
    <<1055, 1077, 1090, 1088, 1086, 1079, 1072, 1074, 1086, 1076, 1089, 1082>>,  \* 73 Petrozavodsk
    <<1050, 1086, 1089, 1090, 1088, 1086, 1084, 1072>>,  \* 74 Kostroma
    <<1053, 1080, 1078, 1085, 1077, 1074, 1072, 1088, 1090, 1086, 1074, 1089, 1082>>,  \* 75 Nizhnevartovsk
    <<1053, 1086, 1074, 1086, 1088, 1086, 1089, 1089, 1080, 1081, 1089, 1082>>,  \* 76 Novorossiysk
    <<1049, 1086, 1096, 1082, 1072, 1088, 45, 1054, 1083, 1072>>,  \* 77 Yoshkar-Ola
    <<1061, 1080, 1084, 1082, 1080>>,  \* 78 Khimki
    <<1058, 1072, 1075, 1072, 1085, 1088, 1086, 1075>>,  \* 79 Taganrog
    <<1050, 1086, 1084, 1089, 1086, 1084, 1086, 1083, 1100, 1089, 1082, 45, 1085, 1072, 45, 1040, 1084, 1091, 1088, 1077>>,  \* 80 Komsomolsk-na-Amure
    <<1057, 1099, 1082, 1090, 1099, 1074, 1082, 1072, 1088>>,  \* 81 Syktyvkar
    <<1053, 1072, 1083, 1100, 1095, 1080, 1082>>,  \* 82 Nalchik
    <<1064, 1072, 1093, 1090, 1099>>,  \* 83 Shakhty
    <<1044, 1079, 1077, 1088, 1078, 1080, 1085, 1089, 1082>>,  \* 84 Dzerzhinsk
    <<1054, 1088, 1089, 1082>>,  \* 85 Orsk
    <<1041, 1088, 1072, 1090, 1089, 1082>>,  \* 86 Bratsk
    <<1069, 1085, 1075, 1077, 1083, 1100, 1089>>,  \* 87 Engels
    <<1040, 1085, 1075, 1072, 1088, 1089, 1082>>,  \* 88 Angarsk
    <<1050, 1086, 1088, 1086, 1083, 1105, 1074>>,  \* 89 Korolyov
    <<1055, 1089, 1082, 1086, 1074>>,  \* 90 Pskov
    <<1041, 1080, 1081, 1089, 1082>>,  \* 91 Biysk
    <<1055, 1088, 1086, 1082, 1086, 1087, 1100, 1077, 1074, 1089, 1082>>,  \* 92 Prokopevsk
    <<1056, 1099, 1073, 1080, 1085, 1089, 1082>>,  \* 93 Rybinsk
    <<1041, 1072, 1083, 1072, 1082, 1086, 1074, 1086>>,  \* 94 Balakovo
    <<1040, 1088, 1084, 1072, 1074, 1080, 1088>>,  \* 95 Armavir
    <<1070, 1078, 1085, 1086, 45, 1057, 1072, 1093, 1072, 1083, 1080, 1085, 1089, 1082>>,  \* 96 Yuzhno-Sakhalinsk
    <<1057, 1077, 1074, 1077, 1088, 1086, 1076, 1074, 1080, 1085, 1089, 1082>>,  \* 97 Severodvinsk
    <<1040, 1073, 1072, 1082, 1072, 1085>>,  \* 98 Abakan
    <<1053, 1086, 1088, 1080, 1083, 1100, 1089, 1082>>,  \* 99 Norilsk
    <<1051, 1102, 1073, 1077, 1088, 1094, 1099>>,  \* 100 Lyubertsy
    <<1052, 1099, 1090, 1080, 1097, 1080>>,  \* 101 Mytishchi
    <<1052, 1080, 1072, 1089, 1089>>,  \* 102 Miass
    <<1053, 1086, 1074, 1086, 1095, 1077, 1088, 1082, 1072, 1089, 1089, 1082>>,  \* 103 Novocherkassk
    <<1050, 1072, 1084, 1077, 1085, 1089, 1082, 45, 1059, 1088, 1072, 1083, 1100, 1089, 1082, 1080, 1081>>,  \* 104 Kamensk-Uralskiy
    <<1047, 1083, 1072, 1090, 1086, 1091, 1089, 1090>>,  \* 105 Zlatoust
    <<1069, 1083, 1077, 1082, 1090, 1088, 1086, 1089, 1090, 1072, 1083, 1100>>,  \* 106 Elektrostal
    <<1040, 1083, 1100, 1084, 1077, 1090, 1100, 1077, 1074, 1089, 1082>>,  \* 107 Almetevsk
    <<1057, 1072, 1083, 1072, 1074, 1072, 1090>>,  \* 108 Salavat
    <<1050, 1086, 1087, 1077, 1081, 1089, 1082>>,  \* 109 Kopeysk
    <<1055, 1103, 1090, 1080, 1075, 1086, 1088, 1089, 1082>>,  \* 110 Pyatigorsk
    <<1056, 1091, 1073, 1094, 1086, 1074, 1089, 1082>>,  \* 111 Rubtsovsk
    <<1041, 1077, 1088, 1077, 1079, 1085, 1080, 1082, 1080>>,  \* 112 Berezniki
    <<1050, 1086, 1083, 1086, 1084, 1085, 1072>>,  \* 113 Kolomna
    <<1052, 1072, 1081, 1082, 1086, 1087>>,  \* 114 Maykop
    <<1054, 1076, 1080, 1085, 1094, 1086, 1074, 1086>>,  \* 115 Odintsovo
    <<1050, 1086, 1074, 1088, 1086, 1074>>,  \* 116 Kovrov
    <<1050, 1080, 1089, 1083, 1086, 1074, 1086, 1076, 1089, 1082>>,  \* 117 Kislovodsk
    <<1046, 1077, 1083, 1077, 1079, 1085, 1086, 1076, 1086, 1088, 1086, 1078, 1085, 1099, 1081>>,  \* 118 Zheleznodorozhnyy
    <<1053, 1086, 1074, 1086, 1084, 1086, 1089, 1082, 1086, 1074, 1089, 1082>>,  \* 119 Novomoskovsk
    <<1057, 1077, 1088, 1087, 1091, 1093, 1086, 1074>>,  \* 120 Serpukhov
    <<1053, 1086, 1074, 1086, 1096, 1072, 1093, 1090, 1080, 1085, 1089, 1082>>,  \* 121 Novoshakhtinsk
    <<1053, 1077, 1092, 1090, 1077, 1102, 1075, 1072, 1085, 1089, 1082>>,  \* 122 Nefteyugansk
    <<1055, 1077, 1088, 1074, 1086, 1091, 1088, 1072, 1083, 1100, 1089, 1082>>,  \* 123 Pervouralsk
    <<1044, 1077, 1088, 1073, 1077, 1085, 1090>>,  \* 124 Derbent
    <<1063, 1077, 1088, 1082, 1077, 1089, 1089, 1082>>,  \* 125 Cherkessk
    <<1054, 1088, 1077, 1093, 1086, 1074, 1086, 45, 1047, 1091, 1077, 1074, 1086>>,  \* 126 Orekhovo-Zuevo
    <<1053, 1077, 1092, 1090, 1077, 1082, 1072, 1084, 1089, 1082>>,  \* 127 Neftekamsk
    <<1050, 1088, 1072, 1089, 1085, 1086, 1075, 1086, 1088, 1089, 1082>>,  \* 128 Krasnogorsk
    <<1044, 1080, 1084, 1080, 1090, 1088, 1086, 1074, 1075, 1088, 1072, 1076>>,  \* 129 Dimitrovgrad
    <<1041, 1072, 1090, 1072, 1081, 1089, 1082>>,  \* 130 Bataysk
    <<1052, 1091, 1088, 1086, 1084>>,  \* 131 Murom
    <<1043, 1072, 1090, 1095, 1080, 1085, 1072>>,  \* 132 Gatchina
    <<1057, 1077, 1088, 1075, 1080, 1077, 1074, 32, 1055, 1086, 1089, 1072, 1076>>,  \* 133 Sergiev Posad
    <<1053, 1086, 1074, 1086, 1090, 1088, 1086, 1080, 1094, 1082>>,  \* 134 Novotroitsk
    <<1042, 1086, 1089, 1082, 1088, 1077, 1089, 1077, 1085, 1089, 1082>>,  \* 135 Voskresensk
    <<1045, 1083, 1077, 1094>>,  \* 136 Elets
    <<1045, 1074, 1087, 1072, 1090, 1086, 1088, 1080, 1103>>,  \* 137 Evpatoriya
    <<1056, 1077, 1091, 1090, 1086, 1074>>,  \* 138 Reutov
    <<1040, 1088, 1079, 1072, 1084, 1072, 1089>>,  \* 139 Arzamas
    <<1041, 1077, 1088, 1076, 1089, 1082>>,  \* 140 Berdsk
    <<1069, 1083, 1080, 1089, 1090, 1072>>,  \* 141 Elista
    <<1053, 1086, 1075, 1080, 1085, 1089, 1082>>,  \* 142 Noginsk
    <<1044, 1086, 1084, 1086, 1076, 1077, 1076, 1086, 1074, 1086>>,  \* 143 Domodedovo
    <<1054, 1073, 1085, 1080, 1085, 1089, 1082>>,  \* 144 Obninsk
    <<1050, 1072, 1089, 1087, 1080, 1081, 1089, 1082>>,  \* 145 Kaspiysk
    <<1050, 1099, 1079, 1099, 1083>>,  \* 146 Kyzyl
    <<1053, 1072, 1079, 1088, 1072, 1085, 1100>>,  \* 147 Nazran
    <<1056, 1072, 1084, 1077, 1085, 1089, 1082, 1086, 1077>>,  \* 148 Ramenskoe
    <<1053, 1072, 1093, 1086, 1076, 1082, 1072>>,  \* 149 Nakhodka
    <<1059, 1089, 1089, 1091, 1088, 1080, 1081, 1089, 1082>>  \* 150 Ussuriysk
>>

(***************************************************************************)
(* Validation and formatting helpers                                       *)
(***************************************************************************)

\* Variants of the helpers below with one step of the source left out.
validateCityByPrefix(city) ==
    IF city = <<>> THEN FALSE
    ELSE \E i \in 1..Len(RUSSIAN_CITIES) :
            startsWith(toLowerCase(RUSSIAN_CITIES[i]), toLowerCase(city))

validateCityCaseSensitive(city) ==
    IF city = <<>> THEN FALSE
    ELSE \E i \in 1..Len(RUSSIAN_CITIES) : RUSSIAN_CITIES[i] = city

validateCity(city) ==
    IF city = <<>> THEN FALSE
    ELSE \E i \in 1..Len(RUSSIAN_CITIES) :
            toLowerCase(RUSSIAN_CITIES[i]) = toLowerCase(city)

validatePhone(phone) ==
    IF phone = <<>> THEN TRUE
    ELSE LET digits == stripNonDigits(phone)
         IN  Len(digits) = 11 /\ (digits[1] = 55 \/ digits[1] = 56)

\* formatPhone that returns its argument.
formatPhoneAsTyped(phone) == phone

\* formatPhone that keeps the leading digit and drops the last one.
formatPhoneKeepLead(phone) ==
    IF phone = <<>> THEN <<>>
    ELSE LET digits == stripNonDigits(phone)
         IN  IF Len(digits) = 11
             THEN <<43, 55, 32, 40>> \o SubSeq(digits, 1, 3) \o <<41, 32>>
                  \o SubSeq(digits, 4, 6) \o <<45>> \o SubSeq(digits, 7, 8)
                  \o <<45>> \o SubSeq(digits, 9, 10)
             ELSE phone

\* `code` is computed by the source and never used; `rest` is
\* digits.substring(1) on both branches of its conditional.
formatPhone(phone) ==
    IF phone = <<>> THEN <<>>
    ELSE LET digits == stripNonDigits(phone)
         IN  IF Len(digits) = 11
             THEN LET rest == SubSeq(digits, 2, Len(digits))
                  IN  <<43, 55, 32, 40>> \o SubSeq(rest, 1, 3) \o <<41, 32>>
                      \o SubSeq(rest, 4, 6) \o <<45>> \o SubSeq(rest, 7, 8)
                      \o <<45>> \o SubSeq(rest, 9, 10)
             ELSE phone

(***************************************************************************)
(* City routes                                                             *)
(***************************************************************************)

\* The word filter without its exclusion of the prefix matches.
isWordMatchAnyCity(city, searchTerm, exactMatches) ==
    LET words == splitWords(toLowerCase(city))
    IN  \E w \in 1..Len(words) : startsWith(words[w], searchTerm)

\* Lines 390-396: the filter callback of the word matches.
isWordMatch(city, searchTerm, exactMatches) ==
    IF InSeq(exactMatches, city) THEN FALSE
    ELSE LET words == splitWords(toLowerCase(city))
         IN  \E w \in 1..Len(words) : startsWith(words[w], searchTerm)

\* GET /api/cities: `query` is None when the parameter is missing.
citiesSearch(query) ==
    IF query # None /\ trim(query[1]) # <<>>
    THEN LET searchTerm == trim(toLowerCase(query[1]))
             exactMatches ==
                 SelectSeq(RUSSIAN_CITIES,
                           LAMBDA city : startsWith(toLowerCase(city), searchTerm))
             wordMatches ==
                 SelectSeq(RUSSIAN_CITIES,
                           LAMBDA city : isWordMatch(city, searchTerm, exactMatches))
             results == IF Len(exactMatches) < 10
                        THEN exactMatches \o wordMatches
                        ELSE exactMatches
         IN  slice(results, 15)
    ELSE <<>>

\* The element at the least position of `hits`, or None: what a for loop
\* that breaks at its first hit leaves in `suggestion`.
firstHit(a, hits) ==
    IF hits = {} THEN None
    ELSE Some(a[CHOOSE i \in hits : \A j \in hits : i <= j])

\* The two loops in the opposite order: substring first, prefix second.
suggestByPartFirst(city) ==
    LET input == toLowerCase(city)
        byPrefix ==
            firstHit(RUSSIAN_CITIES,
                     {i \in 1..Len(RUSSIAN_CITIES) :
                         startsWith(toLowerCase(RUSSIAN_CITIES[i]), input)})
        byPart ==
            firstHit(RUSSIAN_CITIES,
                     {i \in 1..Len(RUSSIAN_CITIES) :
                         includes(toLowerCase(RUSSIAN_CITIES[i]), input)})
    IN  IF byPart # None THEN byPart ELSE byPrefix

\* Lines 439-455: the two loops that look for a similar city.
suggest(city) ==
    LET input == toLowerCase(city)
        byPrefix ==
            firstHit(RUSSIAN_CITIES,
                     {i \in 1..Len(RUSSIAN_CITIES) :
                         startsWith(toLowerCase(RUSSIAN_CITIES[i]), input)})
        byPart ==
            firstHit(RUSSIAN_CITIES,
                     {i \in 1..Len(RUSSIAN_CITIES) :
                         includes(toLowerCase(RUSSIAN_CITIES[i]), input)})
    IN  IF byPrefix # None THEN byPrefix ELSE byPart

\* GET /api/cities/validate/:city
citiesValidate(city) ==
    LET isValid == validateCity(city)
        suggestion == IF ~isValid THEN suggest(city) ELSE None
    IN  [city |-> city, isValid |-> isValid, suggestion |-> suggestion]

\* s.split('.'): the pieces between dots.
RECURSIVE splitDots(_)
splitDots(s) ==
    LET dots == {i \in 1..Len(s) : s[i] = 46}
    IN  IF dots = {} THEN <<s>>
        ELSE LET i == CHOOSE k \in dots : \A j \in dots : k <= j
             IN  <<SubSeq(s, 1, i - 1)>> \o splitDots(SubSeq(s, i + 1, Len(s)))

IsLetter(c) == c \in 65..90 \/ c \in 97..122

\* [^<>()\[\]\\.,;:\s@"]
IsAtomChar(c) ==
    c \notin {60, 62, 40, 41, 91, 93, 92, 46, 44, 59, 58, 64, 34} /\ ~IsSpace(c)

\* [^<>()...]+(\.[^<>()...]+)*
IsDotAtom(s) ==
    LET parts == splitDots(s)
    IN  \A k \in 1..Len(parts) : parts[k] # <<>> /\ (\A i \in 1..Len(parts[k]) : IsAtomChar(parts[k][i]))

\* ".+"  (a dot of a regular expression matches no line terminator)
IsQuoted(s) ==
    /\ Len(s) >= 3 /\ s[1] = 34 /\ s[Len(s)] = 34
    /\ \A i \in 2..(Len(s) - 1) : s[i] \notin {10, 13, 8232, 8233}

\* \[[0-9]{1,3}\.[0-9]{1,3}\.[0-9]{1,3}\.[0-9]{1,3}]
IsAddressLiteral(s) ==
    /\ Len(s) >= 2 /\ s[1] = 91 /\ s[Len(s)] = 93
    /\ LET parts == splitDots(SubSeq(s, 2, Len(s) - 1))
       IN  /\ Len(parts) = 4
           /\ \A k \in 1..4 : Len(parts[k]) \in 1..3 /\ (\A i \in 1..Len(parts[k]) : IsDigit(parts[k][i]))

\* ([a-zA-Z\-0-9]+\.)+[a-zA-Z]{2,}
IsHostName(s) ==
    LET parts == splitDots(s)
        n == Len(parts)
    IN  /\ n >= 2
        /\ \A k \in 1..(n - 1) :
              /\ parts[k] # <<>>
              /\ (\A i \in 1..Len(parts[k]) :
                    IsLetter(parts[k][i]) \/ IsDigit(parts[k][i]) \/ parts[k][i] = 45)
        /\ Len(parts[n]) >= 2 /\ (\A i \in 1..Len(parts[n]) : IsLetter(parts[n][i]))

validateEmail(email) ==
    LET e == toLowerCase(email)
    IN  \E i \in 1..Len(e) :
            /\ e[i] = 64
            /\ LET local == SubSeq(e, 1, i - 1)
                   domain == SubSeq(e, i + 1, Len(e))
               IN  /\ IsDotAtom(local) \/ IsQuoted(local)
                   /\ IsAddressLiteral(domain) \/ IsHostName(domain)

\* /^@[a-zA-Z0-9_]{5,32}$/
validateTelegram(telegram) ==
    IF telegram = <<>> THEN TRUE
    ELSE /\ Len(telegram) \in 6..33
         /\ telegram[1] = 64
         /\ \A i \in 2..Len(telegram) :
               IsLetter(telegram[i]) \/ IsDigit(telegram[i]) \/ telegram[i] = 95

\* Number(s) for the decimal integer literals the model submits: Some(n), or
\* None for NaN.  White space around the literal is ignored and the empty
\* string is 0.
RECURSIVE digitsValue(_)
digitsValue(d) ==
    IF d = <<>> THEN 0
    ELSE 10 * digitsValue(SubSeq(d, 1, Len(d) - 1)) + (d[Len(d)] - 48)

Number(s) ==
    LET t == trim(s)
    IN  IF t = <<>> THEN Some(0)
        ELSE IF (\A i \in 1..Len(t) : IsDigit(t[i])) THEN Some(digitsValue(t))
        ELSE IF t[1] \in {43, 45} /\ Len(t) > 1 /\ (\A i \in 2..Len(t) : IsDigit(t[i]))
             THEN Some(IF t[1] = 45 THEN 0 - digitsValue(Tail(t))
                       ELSE digitsValue(Tail(t)))
        ELSE None

(***************************************************************************)
(* Requests                                                                *)
(***************************************************************************)

MaxProjects == 2    \* records kept in projects.json
MaxClock == 0       \* Date.now() ranges over 0..MaxClock
MaxRand == 2        \* Math.random() ranges over 1..MaxRand
MaxDeviations == 1  \* form fields that differ from BaseBody in one request

\* The `contact` form field: "" (kind empty), a text JSON.parse rejects
\* (garbage), the text null, or the JSON text of a contact object.
Contact(kind, phone, email, telegram, otherContact) ==
    [kind |-> kind, phone |-> phone, email |-> email, telegram |-> telegram,
     otherContact |-> otherContact]

PhoneOnly ==   \* 89123456780
    Contact("object", <<56, 57, 49, 50, 51, 52, 53, 54, 55, 56, 48>>, <<>>, <<>>, <<>>)

Contacts ==
    { PhoneOnly,
      Contact("empty", <<>>, <<>>, <<>>, <<>>),
      Contact("garbage", <<>>, <<>>, <<>>, <<>>),
      Contact("null", <<>>, <<>>, <<>>, <<>>),
      Contact("object", <<>>, <<>>, <<>>, <<>>),
      Contact("object", <<49, 50, 51>>, <<>>, <<>>, <<>>),                \* 123
      Contact("object", <<57, 45, 57, 49, 50, 51, 52, 53, 54, 55, 56, 48>>,
              <<>>, <<>>, <<>>),                                           \* 9-9123456780
      Contact("object", <<56, 57, 49, 50, 51, 52, 53, 54, 55, 56, 48, 49>>,
              <<>>, <<>>, <<>>),                                           \* 891234567801
      Contact("object", <<>>, <<97, 64, 98>>, <<>>, <<118, 107>>),         \* a@b, vk
      Contact("object", <<>>, <<>>, <<64, 97, 98>>, <<118, 107>>),         \* @ab, vk
      Contact("object", <<>>, <<>>, <<>>, <<118, 107>>) }                  \* vk

BaseBody ==
    [title |-> <<32, 84, 32>>,                  \* " T "
     tagline |-> <<71>>,                        \* "G"
     description |-> <<68>>,                    \* "D"
     city |-> <<32, 1091, 1092, 1072, 32>>,     \* " ufa "
     price |-> <<53>>,                          \* "5"
     contact |-> PhoneOnly]

BodyFields == {"title", "tagline", "description", "city", "price", "contact"}

AllBodies ==
    [title : {<<>>, <<32>>, BaseBody.title},
     tagline : {<<32>>, BaseBody.tagline},
     description : {<<>>, BaseBody.description},
     city : {<<32>>, <<1091, 1092>>, BaseBody.city},
     price : {<<>>, <<48>>, <<45, 49>>, <<120>>, BaseBody.price},
     contact : Contacts]

Bodies ==
    {b \in AllBodies :
        Cardinality({f \in BodyFields : b[f] # BaseBody[f]}) <= MaxDeviations}

\* The uploaded file of a request: none, or its extension, MIME type and
\* whether it is larger than the 5 MB limit.
File(ext, mimetype, tooBig) == [ext |-> ext, mimetype |-> mimetype, tooBig |-> tooBig]

Files ==
    { None,
      Some(File(<<46, 112, 110, 103>>, <<105, 109, 97, 103, 101, 47, 112, 110, 103>>, FALSE)),
      Some(File(<<46, 112, 110, 103>>, <<105, 109, 97, 103, 101, 47, 112, 110, 103>>, TRUE)),
      Some(File(<<46, 116, 120, 116>>, <<116, 101, 120, 116, 47, 112, 108, 97, 105, 110>>, FALSE)) }

Rands == 1..MaxRand

\* Date.now() follows the wall clock, which nothing keeps monotonic.
Times == 0..MaxClock

\* 'project_' + Date.now() + '_' + Math.random().toString(36).substr(2, 9)
generateId(now, rnd) == [now |-> now, rnd |-> rnd]

Ids == {generateId(now, rnd) : now \in Times, rnd \in Rands}

(***************************************************************************)
(* Upload middleware                                                       *)
(***************************************************************************)

\* /jpeg|jpg|png|gif/.test(s)
allowedTypes(s) ==
    \/ includes(s, <<106, 112, 101, 103>>) \/ includes(s, <<106, 112, 103>>)
    \/ includes(s, <<112, 110, 103>>) \/ includes(s, <<103, 105, 102>>)

fileFilter(file) == allowedTypes(file.mimetype) /\ allowedTypes(toLowerCase(file.ext))

\* `${Date.now()}-${Math.round(Math.random() * 1E9)}${path.extname(...)}`
filename(now, rnd, file) == [now |-> now, rnd |-> rnd, ext |-> file.ext]

(***************************************************************************)
(* Record store                                                            *)
(***************************************************************************)

\* A read that answers the stored array whether or not the file can be read.
readProjectsAnyway(ok) == projects

\* ok is FALSE when fs.readFileSync or JSON.parse throws.
readProjects(ok) == IF ok THEN projects ELSE <<>>

\* What fs.writeFileSync does to projects.json: it writes the new text; or
\* it throws before the file is opened (no permission, read-only file
\* system) and leaves the file untouched; or it throws after the file was
\* opened with flag 'w', which truncates it (disk full, I/O error).
WriteOutcomes == {"written", "untouched", "truncated"}

\* A write that stores the new array whatever fs.writeFileSync does.
writeProjectsAlways(new, how) == projects' = new

\* The error of a failed write is only logged.  A truncated file is the
\* empty array for every later readProjects: JSON.parse throws on it and
\* readProjects answers [], until a later write replaces the whole file.
writeProjects(new, how) ==
    projects' = CASE how = "written" -> new
                  [] how = "untouched" -> projects
                  [] how = "truncated" -> <<>>

\* Array.prototype.findIndex on the id; 0 stands for -1.
findIndex(list, id) ==
    LET hits == {i \in 1..Len(list) : list[i].id = id}
    IN  IF hits = {} THEN 0 ELSE CHOOSE i \in hits : \A j \in hits : i <= j

\* Array.prototype.splice(index, 1)
splice(list, index) == SubSeq(list, 1, index - 1) \o SubSeq(list, index + 1, Len(list))

\* The file accesses of a handler that failed: "read" when readProjects
\* caught an error, "write" when writeProjects did.
Faults(readOk, writeOk) ==
    (IF readOk THEN {} ELSE {"read"}) \cup (IF writeOk THEN {} ELSE {"write"})

\* The last request and its answer.  `unlinked` (the argument of
\* fs.unlinkSync) and `faults` are not part of the answer: they record what
\* the handler did.
Response(op, id, status, body) ==
    [op |-> op, id |-> id, status |-> status, body |-> body, unlinked |-> None,
     faults |-> {}]

(***************************************************************************)
(* POST /api/projects                                                      *)
(***************************************************************************)

Rejected(status, error) == [accepted |-> FALSE, status |-> status, error |-> error]

Accepted(fields) == [accepted |-> TRUE, fields |-> fields]

\* A handler without the test of line 258.
noContactNever(rawPhone, email, telegram, otherContact) == FALSE

\* Line 258: no way to reach the author was given.
noContact(rawPhone, email, telegram, otherContact) ==
    rawPhone = <<>> /\ email = <<>> /\ telegram = <<>> /\ otherContact = <<>>

\* Lines 215-295 of the handler: the response of an early return (or of the
\* catch block), or the values the record is built from.
checkBody(body) ==
    LET contacts == body.contact
        rawPhone == contacts.phone
        email == contacts.email
        telegram == contacts.telegram
        otherContact == contacts.otherContact
        phone == IF rawPhone # <<>> THEN formatPhone(rawPhone) ELSE rawPhone
        priceNum == Number(body.price)
    IN  IF \/ trim(body.title) = <<>> \/ trim(body.tagline) = <<>>
           \/ trim(body.description) = <<>> \/ trim(body.city) = <<>>
           \/ body.price = <<>> \/ contacts.kind = "empty"
        THEN Rejected(400, "missing fields")
        ELSE IF ~validateCity(trim(body.city)) THEN Rejected(400, "city")
        ELSE IF contacts.kind = "garbage" THEN Rejected(400, "contact format")
        ELSE IF contacts.kind = "null" THEN Rejected(500, "TypeError")
        ELSE IF noContact(rawPhone, email, telegram, otherContact)
        THEN Rejected(400, "no contact")
        ELSE IF rawPhone # <<>> /\ ~validatePhone(phone) THEN Rejected(400, "phone")
        ELSE IF email # <<>> /\ ~validateEmail(email) THEN Rejected(400, "email")
        ELSE IF telegram # <<>> /\ ~validateTelegram(telegram)
        THEN Rejected(400, "telegram")
        ELSE IF priceNum = None \/ priceNum[1] <= 0 THEN Rejected(400, "price")
        ELSE Accepted([title |-> trim(body.title),
                       tagline |-> trim(body.tagline),
                       description |-> trim(body.description),
                       city |-> trim(body.city),
                       price |-> priceNum[1],
                       phone |-> phone, email |-> email, telegram |-> telegram,
                       otherContact |-> otherContact])

\* checkBody of every request body the model submits, computed once.
BodyChecks == [b \in Bodies |-> checkBody(b)]

\* s || undefined
orUndefined(s) == IF s = <<>> THEN None ELSE Some(s)

\* Lines 300-323: the record of an accepted request.
newProject(f, id, now, image) ==
    [id |-> id,
     title |-> f.title,
     tagline |-> f.tagline,
     description |-> f.description,
     city |-> f.city,
     price |-> f.price,
     contact |-> [phone |-> f.phone, email |-> f.email, telegram |-> f.telegram,
                  otherContact |-> f.otherContact],
     phone |-> orUndefined(f.phone),
     email |-> orUndefined(f.email),
     telegram |-> orUndefined(f.telegram),
     otherContact |-> orUndefined(f.otherContact),
     createdAt |-> now,
     image |-> image]

\* The handler proper, reached once multer has stored the file (image is
\* None without one).
createProject(body, image, now) ==
    LET chk == BodyChecks[body]
    IN  IF ~chk.accepted
        THEN /\ resp' = Response("create", None, chk.status, chk.error)
             /\ UNCHANGED projects
        ELSE \E rnd \in Rands, readOk \in BOOLEAN, how \in WriteOutcomes :
                LET stored == readProjects(readOk)
                    project == newProject(chk.fields, generateId(now, rnd), now, image)
                IN  /\ writeProjects(Append(stored, project), how)
                    /\ resp' = [Response("create", None, 201, project)
                                   EXCEPT !.faults = Faults(readOk, how = "written")]

\* upload.single('image') and then the handler.  A file the filter refuses
\* ends in the error middleware (500); one over the size limit is a
\* MulterError (400); neither leaves a file behind.
PostProject ==
    /\ Len(projects) < MaxProjects
    /\ \E file \in Files, now \in Times :
          IF file # None /\ ~fileFilter(file[1])
          THEN /\ resp' = Response("create", None, 500, "upload refused")
               /\ UNCHANGED <<projects, uploads>>
          ELSE IF file # None /\ file[1].tooBig
          THEN /\ resp' = Response("create", None, 400, "file too large")
               /\ UNCHANGED <<projects, uploads>>
          ELSE IF file = None
          THEN /\ \E body \in Bodies : createProject(body, None, now)
               /\ UNCHANGED uploads
          ELSE \E rnd \in Rands :
                  LET name == filename(now, rnd, file[1])
                  IN  /\ uploads' = uploads \cup {name}
                      /\ \E body \in Bodies : createProject(body, Some(name), now)
    /\ UNCHANGED <<arg, ret, inflight>>

(***************************************************************************)
(* GET /api/projects, GET /api/projects/:id, DELETE /api/projects/:id      *)
(***************************************************************************)

GetProjects ==
    /\ \E readOk \in BOOLEAN :
          resp' = [Response("list", None, 200, readProjects(readOk))
                      EXCEPT !.faults = Faults(readOk, TRUE)]
    /\ UNCHANGED <<projects, uploads, arg, ret, inflight>>

GetProject ==
    /\ \E id \in Ids, readOk \in BOOLEAN :
          LET list == readProjects(readOk)
              index == findIndex(list, id)
          IN  resp' = [(IF index = 0
                        THEN Response("get", Some(id), 404, "not found")
                        ELSE Response("get", Some(id), 200, list[index]))
                          EXCEPT !.faults = Faults(readOk, TRUE)]
    /\ UNCHANGED <<projects, uploads, arg, ret, inflight>>

\* Lines 352-354: the record names an image and the file is there.
imageExists(project) == project.image # None /\ project.image[1] \in uploads

\* A handler that never calls fs.unlinkSync.
unlinkNothing(project) == uploads

\* Line 355: the uploads directory once fs.unlinkSync has removed the image.
unlinkImage(project) == uploads \ {project.image[1]}

\* unlinkOk is FALSE when fs.unlinkSync throws, which the catch block of the
\* handler answers with 500.
deleteProject(id, readOk) ==
    LET list == readProjects(readOk)
        projectIndex == findIndex(list, id)
    IN  IF projectIndex = 0
        THEN /\ resp' = [Response("delete", Some(id), 404, "not found")
                            EXCEPT !.faults = Faults(readOk, TRUE)]
             /\ UNCHANGED <<projects, uploads>>
        ELSE LET project == list[projectIndex]
                 exists == imageExists(project)
             IN  \E unlinkOk \in (IF exists THEN BOOLEAN ELSE {TRUE}) :
                    IF ~unlinkOk
                    THEN /\ resp' = Response("delete", Some(id), 500, "server error")
                         /\ UNCHANGED <<projects, uploads>>
                    ELSE \E how \in WriteOutcomes :
                            /\ uploads' = IF exists THEN unlinkImage(project)
                                           ELSE uploads
                            /\ writeProjects(splice(list, projectIndex), how)
                            /\ resp' = [Response("delete", Some(id), 200, "deleted")
                                           EXCEPT !.unlinked =
                                               IF exists THEN project.image ELSE None,
                                                  !.faults = Faults(readOk, how = "written")]

DeleteProject ==
    /\ \E id \in Ids, readOk \in BOOLEAN : deleteProject(id, readOk)
    /\ UNCHANGED <<arg, ret, inflight>>

MaxRequests == 2    \* requests that are in flight together

Slots == 1..MaxRequests

\* A request slot: its phase (idle, pending: received and waiting for its
\* handler to be called, loaded: the handler is past readProjects, done: it
\* has answered), the route, the :id of a DELETE, the array readProjects
\* returned, the outcome of that read, the status answered and the record
\* of a 201.  `overlapped` notes that the other request was waiting when
\* the handler was called.
Idle ==
    [phase |-> "idle", op |-> "none", id |-> None, list |-> <<>>, readOk |-> TRUE,
     status |-> 0, project |-> None, overlapped |-> FALSE]

NoRequests == [s \in Slots |-> Idle]

Init ==
    /\ inflight = NoRequests
    /\ projects = <<>>
    /\ uploads = {}
    /\ resp = Response("none", None, 0, "")
    /\ arg = None
    /\ ret = [fn |-> "none", value |-> None]

Next == PostProject \/ GetProjects \/ GetProject \/ DeleteProject

Spec == Init /\ [][Next]_vars

(***************************************************************************)
(* Helper calls on bounded inputs                                          *)
(***************************************************************************)

MaxInputLen == 3

\* u U f a n k, space
InputChars == {1091, 1059, 1092, 1072, 1085, 1082, 32}

Texts == UNION {[1..n -> InputChars] : n \in 0..MaxInputLen}

\* Phone numbers as typed: a lead followed by a body.
PhoneLeads ==
    { <<>>, <<55>>, <<56>>, <<57>>, <<43, 55>>, <<43, 55, 32, 40>>, <<56, 45>> }

PhoneBodies ==
    { <<57, 49, 50, 51, 52, 53, 54, 55, 56, 48>>,
      <<57, 49, 50, 32, 51, 52, 53, 45, 54, 55, 45, 56, 48>>,
      <<57, 49, 50, 41, 32, 51, 52, 53, 45, 54, 55, 45, 56, 48>>,
      <<57, 49, 50, 51, 52, 53, 54, 55, 56>>,
      <<57, 49, 50, 51, 52, 53, 54, 55, 56, 48, 49>>,
      <<57, 49, 50, 120, 51, 52, 53, 54, 55, 56, 48>> }

Phones == {l \o b : l \in PhoneLeads, b \in PhoneBodies}

FnInputs == {None} \cup {Some(t) : t \in Texts \cup Phones}

GetCities ==
    /\ ret.fn = "none"
    /\ ret' = [fn |-> "cities", value |-> citiesSearch(arg)]
    /\ UNCHANGED <<projects, uploads, resp, arg, inflight>>

\* Express matches :city against a non-empty path segment only.
GetCitiesValidate ==
    /\ ret.fn = "none"
    /\ arg # None /\ arg[1] # <<>>
    /\ ret' = [fn |-> "validate", value |-> citiesValidate(arg[1])]
    /\ UNCHANGED <<projects, uploads, resp, arg, inflight>>

CallValidateCity ==
    /\ ret.fn = "none"
    /\ arg # None
    /\ ret' = [fn |-> "validateCity", value |-> validateCity(arg[1])]
    /\ UNCHANGED <<projects, uploads, resp, arg, inflight>>

CallFormatPhone ==
    /\ ret.fn = "none"
    /\ arg # None
    /\ ret' = [fn |-> "formatPhone", value |-> formatPhone(arg[1])]
    /\ UNCHANGED <<projects, uploads, resp, arg, inflight>>

InitFn ==
    /\ inflight = NoRequests
    /\ projects = <<>>
    /\ uploads = {}
    /\ resp = Response("none", None, 0, "")
    /\ arg \in FnInputs
    /\ ret = [fn |-> "none", value |-> None]

NextFn == GetCities \/ GetCitiesValidate \/ CallValidateCity \/ CallFormatPhone

SpecFn == InitFn /\ [][NextFn]_vars
(***************************************************************************)
(* Requests in flight together (SpecLoop)                                  *)
(*                                                                         *)
(* Several requests can be in flight at once: express receives them and    *)
(* calls each handler from the event loop.  The handlers of POST and       *)
(* DELETE are cut at their two file accesses, readProjects and             *)
(* writeProjects.                                                          *)
(***************************************************************************)

\* The record of the seeded document and of every create: the accepted
\* fields of BaseBody.
LoopFields == BodyChecks[BaseBody].fields

SeedProject == newProject(LoopFields, generateId(0, 1), 0, None)

\* A variant of the event loop that calls a handler while another one is
\* between its two file accesses.
loopAlwaysFree(s) == TRUE

\* The handlers are synchronous from readProjects to res.json (readFileSync,
\* writeFileSync, no await and no callback in between), so the event loop
\* calls no other handler while one is between those two points.
loopFree(s) == \A t \in Slots \ {s} : inflight[t].phase # "loaded"

\* express receives a POST with an acceptable body, or a DELETE.
Receive(s) ==
    /\ inflight[s].phase = "idle"
    /\ \E op \in {"create", "delete"} :
          \E id \in (IF op = "delete" THEN {Some(i) : i \in Ids} ELSE {None}) :
             inflight' = [inflight EXCEPT ![s] =
                             [Idle EXCEPT !.phase = "pending", !.op = op, !.id = id]]
    /\ UNCHANGED <<projects, uploads, resp, arg, ret>>

\* The event loop calls the handler, which runs up to readProjects (line
\* 297, line 343); a DELETE that does not find its id answers 404 (346-348).
CallHandler(s) ==
    /\ inflight[s].phase = "pending"
    /\ loopFree(s)
    /\ \E readOk \in BOOLEAN :
          LET list == readProjects(readOk)
              waiting == \E t \in Slots \ {s} : inflight[t].phase = "pending"
          IN  inflight' = [inflight EXCEPT ![s] =
                  IF inflight[s].op = "delete" /\ findIndex(list, inflight[s].id[1]) = 0
                  THEN [@ EXCEPT !.phase = "done", !.status = 404,
                                 !.readOk = readOk, !.overlapped = waiting]
                  ELSE [@ EXCEPT !.phase = "loaded", !.list = list,
                                 !.readOk = readOk, !.overlapped = waiting]]
    /\ UNCHANGED <<projects, uploads, resp, arg, ret>>

\* The handler goes on from readProjects to its answer: push or splice,
\* writeProjects, res.json (lines 300-331, 350-363).
Finish(s) ==
    /\ inflight[s].phase = "loaded"
    /\ \E how \in WriteOutcomes, now \in Times, rnd \in Rands :
          LET list == inflight[s].list
              project == newProject(LoopFields, generateId(now, rnd), now, None)
          IN  IF inflight[s].op = "create"
              THEN /\ writeProjects(Append(list, project), how)
                   /\ inflight' = [inflight EXCEPT ![s] =
                          [@ EXCEPT !.phase = "done", !.status = 201,
                                    !.list = <<>>, !.project = Some(project)]]
              ELSE /\ writeProjects(splice(list, findIndex(list, inflight[s].id[1])),
                                    how)
                   /\ inflight' = [inflight EXCEPT ![s] =
                          [@ EXCEPT !.phase = "done", !.status = 200, !.list = <<>>]]
    /\ UNCHANGED <<uploads, resp, arg, ret>>

\* projects.json holds one record when the requests arrive.
InitLoop ==
    /\ inflight = NoRequests
    /\ projects = <<SeedProject>>
    /\ uploads = {}
    /\ resp = Response("none", None, 0, "")
    /\ arg = None
    /\ ret = [fn |-> "none", value |-> None]

NextLoop == \E s \in Slots : Receive(s) \/ CallHandler(s) \/ Finish(s)

SpecLoop == InitLoop /\ [][NextLoop]_vars

(***************************************************************************)
(* Properties of the helper calls (SpecFn)                                 *)
(***************************************************************************)

\* Case-insensitive comparison stated on upper case, independently of
\* toLowerCase.
upperChar(c) ==
    IF c \in 97..122 THEN c - 32
    ELSE IF c \in 1072..1103 THEN c - 32
    ELSE IF c \in 1104..1119 THEN c - 80
    ELSE c

EqualIgnoringCase(s, t) ==
    /\ Len(s) = Len(t)
    /\ \A i \in 1..Len(s) : upperChar(s[i]) = upperChar(t[i])

InDirectory(name) ==
    \E i \in 1..Len(RUSSIAN_CITIES) : EqualIgnoringCase(name, RUSSIAN_CITIES[i])

HasPrefix(name, q) ==
    Len(q) <= Len(name) /\ EqualIgnoringCase(SubSeq(name, 1, Len(q)), q)

Contains(name, q) ==
    \E i \in 1..(Len(name) - Len(q) + 1) :
        EqualIgnoringCase(SubSeq(name, i, i + Len(q) - 1), q)

IsNameSep(c) == c = 32 \/ c = 45

\* Some word of name (a maximal run without spaces and hyphens) starts
\* with q.
HasWordWithPrefix(name, q) ==
    \E i \in 1..Len(name) :
        /\ ~IsNameSep(name[i])
        /\ i = 1 \/ IsNameSep(name[i - 1])
        /\ i + Len(q) - 1 <= Len(name)
        /\ \A k \in i..(i + Len(q) - 1) : ~IsNameSep(name[k])
        /\ EqualIgnoringCase(SubSeq(name, i, i + Len(q) - 1), q)

Blank(s) == \A i \in 1..Len(s) : s[i] = 32

RECURSIVE Stripped(_)
Stripped(s) ==
    IF s = <<>> THEN s
    ELSE IF Head(s) = 32 THEN Stripped(Tail(s))
    ELSE IF s[Len(s)] = 32 THEN Stripped(SubSeq(s, 1, Len(s) - 1))
    ELSE s

NoRepeat(a) == \A i, j \in 1..Len(a) : a[i] = a[j] => i = j

FirstOf(a, n) == SubSeq(a, 1, IF Len(a) < n THEN Len(a) ELSE n)

\* The search result the specification describes for a query q.
SearchFor(q) ==
    LET prefixMatches == SelectSeq(RUSSIAN_CITIES, LAMBDA n : HasPrefix(n, q))
        others == SelectSeq(RUSSIAN_CITIES,
                            LAMBDA n : ~HasPrefix(n, q) /\ HasWordWithPrefix(n, q))
    IN  FirstOf(IF Len(prefixMatches) < 10 THEN prefixMatches \o others
                ELSE prefixMatches, 15)

QueryText == IF arg = None THEN <<>> ELSE arg[1]

SearchShape == Len(ret.value) <= 15 /\ NoRepeat(ret.value)

\* C6 as stated: the result of GET /api/cities is the empty sequence for an
\* empty or blank query and otherwise the prefix matches of the query as
\* given (case-insensitively), then, when there are fewer than 10 of them,
\* the other cities with a word starting with the query, cut to 15 entries
\* without repetition.
C6_SearchOfQueryAsGiven ==
    ret.fn = "cities" =>
        /\ ret.value = IF Blank(QueryText) THEN <<>> ELSE SearchFor(QueryText)
        /\ SearchShape

\* C6 amended: the same with the query stripped of its surrounding white
\* space before it is matched.
C6_SearchOfStrippedQuery ==
    ret.fn = "cities" =>
        /\ ret.value = IF Blank(QueryText) THEN <<>>
                       ELSE SearchFor(Stripped(QueryText))
        /\ SearchShape

\* A padded query answered with prefix matches followed by a word match.
C6_Witness ==
    /\ ret.fn = "cities"
    /\ QueryText # Stripped(QueryText)
    /\ Len(ret.value) > 1
    /\ HasPrefix(ret.value[1], Stripped(QueryText))
    /\ ~HasPrefix(ret.value[Len(ret.value)], Stripped(QueryText))

\* C7: validateCity is true exactly for the names equal to a directory entry
\* up to letter case; so it is false for the empty name and for a proper
\* prefix or part of an entry that is no entry itself.
C7_ValidIffInDirectory ==
    ret.fn = "validateCity" =>
        /\ ret.value <=> InDirectory(arg[1])
        /\ arg[1] = <<>> => ~ret.value
        /\ (\A i \in 1..Len(RUSSIAN_CITIES) : arg[1] # RUSSIAN_CITIES[i]
                                               /\ EqualIgnoringCase(arg[1], RUSSIAN_CITIES[i])
                                               => ret.value)

\* A name accepted in another letter case than the directory's.
C7_Witness ==
    /\ ret.fn = "validateCity"
    /\ ret.value = TRUE
    /\ \A i \in 1..Len(RUSSIAN_CITIES) : arg[1] # RUSSIAN_CITIES[i]

\* The suggestion the specification describes for an invalid name.
SuggestionFor(name) ==
    LET byPrefix == {i \in 1..Len(RUSSIAN_CITIES) : HasPrefix(RUSSIAN_CITIES[i], name)}
        byPart == {i \in 1..Len(RUSSIAN_CITIES) : Contains(RUSSIAN_CITIES[i], name)}
        Least(S) == CHOOSE i \in S : \A j \in S : i <= j
    IN  IF byPrefix # {} THEN Some(RUSSIAN_CITIES[Least(byPrefix)])
        ELSE IF byPart # {} THEN Some(RUSSIAN_CITIES[Least(byPart)])
        ELSE None

\* C8: GET /api/cities/validate/:city answers a valid name without a
\* suggestion, and an invalid name with the first entry that starts with it,
\* else the first entry that contains it, else no suggestion.
C8_Suggestion ==
    ret.fn = "validate" =>
        /\ ret.value.city = arg[1]
        /\ ret.value.isValid <=> InDirectory(arg[1])
        /\ ret.value.suggestion = IF InDirectory(arg[1]) THEN None
                                  ELSE SuggestionFor(arg[1])

\* An invalid name whose suggestion only contains it, when an earlier entry
\* does not start with it.
C8_Witness ==
    /\ ret.fn = "validate"
    /\ ~ret.value.isValid
    /\ ret.value.suggestion # None
    /\ ~HasPrefix(ret.value.suggestion[1], arg[1])

DigitsOf(s) == SelectSeq(s, LAMBDA c : c \in 48..57)

\* C9: formatPhone returns +7 (XXX) XXX-XX-XX made of digits 2 to 11 when
\* the input holds exactly 11 digits, whatever the first digit is, and the
\* input itself otherwise; formatting the result again changes nothing.
C9_FormatPhone ==
    ret.fn = "formatPhone" =>
        LET d == DigitsOf(arg[1])
        IN  IF Len(d) = 11
            THEN /\ ret.value = <<43, 55, 32, 40, d[2], d[3], d[4], 41, 32,
                                  d[5], d[6], d[7], 45, d[8], d[9], 45, d[10], d[11]>>
                 /\ formatPhone(ret.value) = ret.value
            ELSE ret.value = arg[1]

\* An 11-digit number with separators whose first digit is neither 7 nor 8.
C9_Witness ==
    /\ ret.fn = "formatPhone"
    /\ Len(DigitsOf(arg[1])) = 11
    /\ DigitsOf(arg[1])[1] = 57
    /\ Len(arg[1]) > 11
    /\ Len(ret.value) = 18
(***************************************************************************)
(* Properties of the project store (Spec)                                  *)
(***************************************************************************)

\* The positions of the records with a given id, and the first of them.
Holders(list, id) == {i \in 1..Len(list) : list[i].id = id}

FirstHolder(list, id) ==
    CHOOSE i \in Holders(list, id) : \A j \in Holders(list, id) : i <= j

Without(list, i) == [k \in 1..(Len(list) - 1) |-> IF k < i THEN list[k] ELSE list[k + 1]]

\* C1: a GET /api/projects/:id that directly follows a 201 answers 200 with
\* the record of that 201, and one that directly follows a 200 of DELETE for
\* the same id answers 404.
C1_FindAfterCreateAndDelete ==
    [][/\ (resp.op = "create" /\ resp.status = 201 /\ resp'.op = "get"
             /\ resp'.id = Some(resp.body.id))
          => (resp'.status = 200 /\ resp'.body = resp.body)
       /\ (resp.op = "delete" /\ resp.status = 200 /\ resp'.op = "get"
             /\ resp'.id = resp.id)
          => resp'.status = 404]_vars

\* C2: a POST /api/projects answered 400 leaves the stored records and the
\* uploaded files as they were.
C2_RejectedCreateChangesNothing ==
    [][(resp'.op = "create" /\ resp'.status = 400)
          => UNCHANGED <<projects, uploads>>]_vars

\* C3: the city of every stored record equals a directory entry up to
\* letter case.
C3_StoredCityInDirectory ==
    \A i \in 1..Len(projects) : InDirectory(projects[i].city)

\* A stored city written in another letter case than the directory's.
C3_Witness ==
    \E i \in 1..Len(projects) :
        \A k \in 1..Len(RUSSIAN_CITIES) : projects[i].city # RUSSIAN_CITIES[k]

HasContact(project) ==
    \/ project.phone # None /\ project.phone # Some(<<>>)
    \/ project.email # None /\ project.email # Some(<<>>)
    \/ project.telegram # None /\ project.telegram # Some(<<>>)
    \/ project.otherContact # None /\ project.otherContact # Some(<<>>)

ContactsAllEmpty(body) ==
    /\ body.contact.kind = "object"
    /\ body.contact.phone = <<>> /\ body.contact.email = <<>>
    /\ body.contact.telegram = <<>> /\ body.contact.otherContact = <<>>

\* C4: every stored record has a non-empty phone, email, telegram or
\* otherContact; a request whose contact object has all four empty is not
\* accepted, and the request answered "no contact" stores nothing.
C4_AtLeastOneContact ==
    /\ [](\A i \in 1..Len(projects) : HasContact(projects[i]))
    /\ [](\A b \in Bodies : ContactsAllEmpty(b) => ~BodyChecks[b].accepted)
    /\ [][(resp'.op = "create" /\ resp'.status = 400 /\ resp'.body = "no contact")
             => projects' = projects]_vars

\* A request refused for want of a contact while a record reachable only
\* through otherContact is stored.
C4_Witness ==
    /\ resp.op = "create" /\ resp.status = 400 /\ resp.body = "no contact"
    /\ \E i \in 1..Len(projects) :
          projects[i].phone = None /\ projects[i].otherContact # None

\* C5: POST leaves the records alone or appends one at the end; DELETE leaves
\* them alone or removes the first record with its id; the GET routes leave
\* them alone.
C5_RecordsOnlyAppendedOrDeleted ==
    [][/\ resp'.op = "create" =>
             \/ projects' = projects
             \/ /\ Len(projects') = Len(projects) + 1
                /\ SubSeq(projects', 1, Len(projects)) = projects
       /\ resp'.op = "delete" =>
             \/ projects' = projects
             \/ /\ Holders(projects, resp'.id[1]) # {}
                /\ projects' = Without(projects, FirstHolder(projects, resp'.id[1]))
       /\ resp'.op \in {"get", "list"} => projects' = projects]_vars

\* C10: a DELETE answered 200 removes the image file of the first record
\* with its id, when that record names one, and no other file; every other
\* DELETE leaves the uploaded files as they were.
C10_DeleteRemovesExactlyTheImage ==
    [][resp'.op = "delete" =>
          IF resp'.status = 200 /\ Holders(projects, resp'.id[1]) # {}
          THEN LET project == projects[FirstHolder(projects, resp'.id[1])]
               IN  uploads' = IF project.image = None THEN uploads
                              ELSE uploads \ {project.image[1]}
          ELSE uploads' = uploads]_vars

\* A DELETE that removed the image of its record and left another file in
\* place.
C10_Witness ==
    /\ resp.op = "delete" /\ resp.status = 200
    /\ resp.unlinked # None
    /\ resp.unlinked[1] \notin uploads
    /\ uploads # {}

C13_FailedReadIsEmpty ==
    (resp.op \in {"list", "get", "delete"} /\ "read" \in resp.faults) =>
        /\ resp.status # 500
        /\ resp.op = "list" => (resp.status = 200 /\ resp.body = <<>>)
        /\ resp.op \in {"get", "delete"} => resp.status = 404

\* A DELETE answered 404 although projects.json holds a record with its id.
C13_Witness ==
    /\ resp.op = "delete" /\ resp.status = 404
    /\ "read" \in resp.faults
    /\ Holders(projects, resp.id[1]) # {}

\* C14: no two stored records have the same id.
C14_IdsUnique ==
    \A i, j \in 1..Len(projects) : projects[i].id = projects[j].id => i = j

\* +7 (XXX) XXX-XX-XX
Canonical(p) ==
    /\ Len(p) = 18
    /\ SubSeq(p, 1, 4) = <<43, 55, 32, 40>>
    /\ SubSeq(p, 8, 9) = <<41, 32>>
    /\ p[13] = 45 /\ p[16] = 45
    /\ \A i \in {5, 6, 7, 10, 11, 12, 14, 15, 17, 18} : p[i] \in 48..57

\* Of the requests drawn: one whose phone does not hold exactly 11 digits is
\* not accepted, and one whose phone holds 11 digits is accepted only with
\* the phone made of its digits 2 to 11 in the form above.
PhonesNormalizedThenValidated ==
    \A b \in Bodies :
        (b.contact.kind = "object" /\ b.contact.phone # <<>>) =>
            LET d == DigitsOf(b.contact.phone)
            IN  IF Len(d) = 11
                THEN BodyChecks[b].accepted =>
                        /\ Canonical(BodyChecks[b].fields.phone)
                        /\ DigitsOf(BodyChecks[b].fields.phone)
                              = <<55>> \o SubSeq(d, 2, 11)
                ELSE ~BodyChecks[b].accepted

\* C15: the phone of every stored record is absent or of the form
\* +7 (XXX) XXX-XX-XX; a request whose phone does not hold exactly 11 digits
\* is rejected and a phone of 11 digits is stored only in that form.
C15_StoredPhoneCanonical ==
    /\ \A i \in 1..Len(projects) :
          projects[i].phone = None \/ Canonical(projects[i].phone[1])
    /\ PhonesNormalizedThenValidated

\* A 201 whose record is stored with a phone in that form.
C15_Witness ==
    /\ resp.op = "create" /\ resp.status = 201
    /\ resp.body.phone # None /\ Canonical(resp.body.phone[1])
    /\ \E i \in 1..Len(projects) : projects[i] = resp.body

(***************************************************************************)
(* Properties of requests in flight together (SpecLoop)                    *)
(***************************************************************************)

====
